---- MODULE Spec2Model ----
(***************************************************************************)
(* open_upnp_port of main.py: SSDP discovery, description fetch and the    *)
(* AddPortMapping POST, run by successive invocations against a network    *)
(* environment whose answers are recorded as they are first given, so that *)
(* a later invocation meets the same environment.                          *)
(*                                                                         *)
(* Text is a sequence of one-character strings.  Values that Python keeps  *)
(* as None, or that do not exist, are one-element sequences holding a      *)
(* marker that no text contains.                                           *)
(***************************************************************************)
EXTENDS Integers, Sequences, FiniteSets, TLC

\* ------------------------------------------------------------- bounds ----
NumCalls == 2
MaxDatagrams == 2
MaxServices == 2
MaxPort == 63

Procs == 1..NumCalls

\* the port of the call that the main block keeps as a comment
DefaultPort == 1234

\* ports an invocation may be asked for; port_number is not validated
Ports == (-1)..MaxPort

\* ----------------------------------------------------- text primitives ---
CRLF == <<"\r", "\n">>
LOCATION == <<"L", "O", "C", "A", "T", "I", "O", "N">>
WANIPConnection ==
    <<"W", "A", "N", "I", "P", "C", "o", "n", "n", "e", "c", "t", "i", "o", "n">>

Unbound == <<"<unbound>">>
NoneText == <<"<None>">>
Absent == <<"<absent>">>
BadByte == "<0xff>"

\* sub occurs in s starting at index i
IsPrefixAt(s, sub, i) ==
    /\ i >= 1
    /\ i + Len(sub) - 1 <= Len(s)
    /\ \A k \in 1..Len(sub) : s[i + k - 1] = sub[k]

\* Python `sub in s`
Contains(s, sub) == \E i \in 1..Len(s) : IsPrefixAt(s, sub, i)

\* a substring test where the suffix test belongs
EndsWithAnywhere(s, suffix) == Contains(s, suffix)

\* Python s.endswith(suffix)
EndsWith(s, suffix) ==
    /\ Len(s) >= Len(suffix)
    /\ IsPrefixAt(s, suffix, Len(s) - Len(suffix) + 1)

SetMin(S) == CHOOSE m \in S : \A n \in S : m <= n
SetMax(S) == CHOOSE m \in S : \A n \in S : n <= m

\* bytes.decode(): fails on a byte sequence that is not UTF-8
Decodable(d) == \A k \in 1..Len(d) : d[k] # BadByte

\* re.search(r"LOCATION: (.*)\r\n", s): leftmost start, the group is the
\* longest run of characters other than "\n" that is followed by "\r\n".
\* the pattern without the space after the colon
LocationPatternNoSpace == LOCATION \o <<":">>

LocationPattern == LOCATION \o <<":", " ">>

GroupEnds(s, g) ==
    {e \in g..(Len(s) - 1) :
        /\ s[e] = "\r"
        /\ s[e + 1] = "\n"
        /\ \A k \in g..(e - 1) : s[k] # "\n"}

MatchStarts(s) ==
    {i \in 1..Len(s) :
        /\ IsPrefixAt(s, LocationPattern, i)
        /\ GroupEnds(s, i + Len(LocationPattern)) # {}}

ReSearch(s) ==
    IF MatchStarts(s) = {}
    THEN [matched |-> FALSE, group |-> Unbound]
    ELSE LET i == SetMin(MatchStarts(s))
             g == i + Len(LocationPattern)
             e == SetMax(GroupEnds(s, g))
         IN  [matched |-> TRUE, group |-> SubSeq(s, g, e - 1)]

\* Python s.split(c)
RECURSIVE Split(_, _)
Split(s, c) ==
    IF \E i \in 1..Len(s) : s[i] = c
    THEN LET i == SetMin({j \in 1..Len(s) : s[j] = c})
         IN  <<SubSeq(s, 1, i - 1)>> \o Split(SubSeq(s, i + 1, Len(s)), c)
    ELSE <<s>>

\* Python c.join(parts)
RECURSIVE Join(_, _)
Join(parts, c) ==
    IF parts = <<>> THEN <<>>
    ELSE IF Len(parts) = 1 THEN parts[1]
    ELSE parts[1] \o <<c>> \o Join(Tail(parts), c)

\* location.split("/")[2]; IndexError when there are fewer than three parts
HasHost(loc) == Len(Split(loc, "/")) >= 3
HostOf(loc) == Split(loc, "/")[3]

\* "/" + "/".join(location.split("/")[3:])
PathOf(loc) ==
    LET parts == Split(loc, "/")
    IN  <<"/">> \o Join(SubSeq(parts, 4, Len(parts)), "/")

\* an absolute url cut down to its path
RequestTargetPathOnly(url) ==
    IF url = NoneText \/ url = <<>> THEN <<"/">>
    ELSE IF HasHost(url) THEN PathOf(url)
    ELSE url

\* http.client's putrequest sends "/" for an empty or None url
RequestTarget(url) == IF url = NoneText \/ url = <<>> THEN <<"/">> ELSE url

\* ------------------------------------------------- the network's answers -
StatusLine ==
    <<"H", "T", "T", "P", "/", "1", ".", "1", " ", "2", "0", "0", " ", "O", "K">>

Url1 == <<"h", "t", "t", "p", ":", "/", "/", "r", ":", "1", "/", "d">>
UrlE == <<"h", "t", "t", "p", ":", "/", "/", "e", "/", "x", "/", "y">>
UrlShort == <<"r">>

HdrST == <<"S", "T", ":", " ", "x">>
HdrLoc(u) == LOCATION \o <<":", " ">> \o u
HdrLocNoSpace(u) == LOCATION \o <<":">> \o u
HdrLower(u) == <<"L", "o", "c", "a", "t", "i", "o", "n", ":", " ">> \o u
HdrXLoc(u) == <<"X", "-">> \o LOCATION \o <<":", " ">> \o u
HdrMention == <<"S", "T", ":", " ">> \o LOCATION

\* an SSDP reply: status line, header lines each ended by eol, blank line
RECURSIVE Lines(_, _)
Lines(hs, eol) == IF hs = <<>> THEN <<>> ELSE Head(hs) \o eol \o Lines(Tail(hs), eol)

Reply(hs, eol) == StatusLine \o eol \o Lines(hs, eol) \o eol

\* header lists of the replies the environment may send
HeaderLists ==
    { <<HdrST>>,
      <<HdrLower(Url1)>>,
      <<HdrST, HdrLoc(Url1), HdrST>>,
      <<HdrLoc(UrlShort)>>,
      <<HdrLocNoSpace(Url1)>>,
      <<HdrXLoc(UrlE), HdrLoc(Url1)>>,
      <<HdrXLoc(UrlE)>>,
      <<HdrMention>> }

Datagrams ==
    {Reply(hs, CRLF) : hs \in HeaderLists}
        \cup {Reply(<<HdrLoc(Url1)>>, <<"\n">>)}
        \cup {<<BadByte, BadByte>>}

\* datagrams that the receive loop skips
SkippedDatagrams == {d \in Datagrams : Decodable(d) /\ ~Contains(d, LOCATION)}

\* serviceType and controlURL of a service element: text, None (an empty
\* element) or no such child element
TypeMatch == <<"u", ":">> \o WANIPConnection
TypeVersioned == WANIPConnection \o <<":", "1">>
TypeOther == <<"x">>
Ctl1 == <<"/", "c">>
Ctl2 == <<"h", "t", "t", "p", ":", "/", "/", "r", "/", "k">>

ServiceTypes == {Absent, NoneText, TypeMatch, TypeVersioned, TypeOther}
ControlURLs == {Absent, NoneText, Ctl1, Ctl2}

\* ns: the element is in namespace urn:schemas-upnp-org:device-1-0.  The
\* elements the environment's documents are made of: a matching service with
\* every kind of controlURL, a service without serviceType and one with an
\* empty serviceType, a service of another type, and a matching service
\* outside the namespace.
ServiceElements ==
    [ns : {TRUE}, serviceType : {TypeMatch}, controlURL : ControlURLs]
        \cup [ns : {TRUE}, serviceType : {Absent, NoneText}, controlURL : {Ctl1}]
        \cup {[ns |-> TRUE, serviceType |-> TypeVersioned, controlURL |-> Ctl1],
              [ns |-> FALSE, serviceType |-> TypeMatch, controlURL |-> Ctl2]}

SeqsUpTo(S, n) == UNION {[1..k -> S] : k \in 0..n}

\* a parsed description: its service elements in document order
Documents == SeqsUpTo(ServiceElements, MaxServices)
\* the body of a response that is not well-formed XML: no elements
Garbage == <<>>

HTTP_OK == 200
GetStatuses == {HTTP_OK, 404}
PostStatuses == {HTTP_OK, 204, 500}

\* the documents that come with an error status: at most one service
ErrorDocuments == {doc \in Documents : Len(doc) <= 1}

\* the answer to the description GET: the connection fails, or a response
\* with a status and a body that is a well-formed document or is not
DescResponses ==
    {[kind |-> "refused", status |-> 0, xml |-> FALSE, body |-> Garbage]}
        \cup [kind : {"response"}, status : GetStatuses,
              xml : {FALSE}, body : {Garbage}]
        \cup [kind : {"response"}, status : {HTTP_OK},
              xml : {TRUE}, body : Documents]
        \cup [kind : {"response"}, status : GetStatuses \ {HTTP_OK},
              xml : {TRUE}, body : ErrorDocuments]

PostResponses ==
    {[kind |-> "refused", status |-> 0]}
        \cup [kind : {"response"}, status : PostStatuses]

UnknownDesc == [kind |-> "unknown", status |-> 0, xml |-> FALSE, body |-> Garbage]
UnknownPost == [kind |-> "unknown", status |-> 0]

\* ------------------------------------------------------ exceptions --------
Exceptions ==
    {"timeout", "OSError", "gaierror", "UnicodeDecodeError", "AttributeError",
     "IndexError", "ParseError", "OverflowError"}

\* except socket.timeout (the handler inside the receive loop)
InnerCatches(e) == e = "timeout"

\* a handler for OSError only
OuterCatchesOSError(e) == e \in {"timeout", "OSError", "gaierror"}

\* except Exception (the handler around the whole body)
OuterCatches(e) == e \in Exceptions

\* a timeout handler that reports success
TimeoutReturnsTrue == "True"

\* the value returned by the timeout handler
TimeoutReturn == "False"

\* any 2xx status taken for success
StatusOkAny2xx(st) == st \in 200..299

\* response.status == 200
StatusOk(st) == st = HTTP_OK

\* root.findall(".//ns:service", ns)
FindAll(doc) == SelectSeq(doc, LAMBDA s : s.ns)

\* a loop that passes over a service without serviceType text
RECURSIVE WalkSkipUntyped(_)
WalkSkipUntyped(svcs) ==
    IF svcs = <<>>
    THEN [kind |-> "else", control_url |-> Unbound]
    ELSE LET s == Head(svcs)
         IN  IF s.serviceType = Absent \/ s.serviceType = NoneText
             THEN WalkSkipUntyped(Tail(svcs))
             ELSE IF EndsWith(s.serviceType, WANIPConnection)
                  THEN IF s.controlURL = Absent
                       THEN [kind |-> "AttributeError", control_url |-> Unbound]
                       ELSE [kind |-> "break", control_url |-> s.controlURL]
                  ELSE WalkSkipUntyped(Tail(svcs))

\* a loop without the else branch: no match falls through to the POST
RECURSIVE WalkNoElse(_)
WalkNoElse(svcs) ==
    IF svcs = <<>>
    THEN [kind |-> "break", control_url |-> Unbound]
    ELSE LET s == Head(svcs)
         IN  IF s.serviceType = Absent \/ s.serviceType = NoneText
             THEN [kind |-> "AttributeError", control_url |-> Unbound]
             ELSE IF EndsWith(s.serviceType, WANIPConnection)
                  THEN IF s.controlURL = Absent
                       THEN [kind |-> "AttributeError", control_url |-> Unbound]
                       ELSE [kind |-> "break", control_url |-> s.controlURL]
                  ELSE WalkNoElse(Tail(svcs))

\* a loop without the break: a later match overwrites control_url
RECURSIVE WalkNoBreak(_)
WalkNoBreak(svcs) ==
    IF svcs = <<>>
    THEN [kind |-> "else", control_url |-> Unbound]
    ELSE LET s == Head(svcs)
         IN  IF s.serviceType = Absent \/ s.serviceType = NoneText
             THEN [kind |-> "AttributeError", control_url |-> Unbound]
             ELSE IF EndsWith(s.serviceType, WANIPConnection)
                  THEN IF s.controlURL = Absent
                       THEN [kind |-> "AttributeError", control_url |-> Unbound]
                       ELSE LET rest == WalkNoBreak(Tail(svcs))
                            IN  IF rest.kind = "else"
                                THEN [kind |-> "break", control_url |-> s.controlURL]
                                ELSE rest
                  ELSE WalkNoBreak(Tail(svcs))

\* the for/else over the service elements: break with the control URL of the
\* first match, else when there is none, AttributeError on .text of a child
\* that is missing or .endswith of a text that is None
RECURSIVE Walk(_)
Walk(svcs) ==
    IF svcs = <<>>
    THEN [kind |-> "else", control_url |-> Unbound]
    ELSE LET s == Head(svcs)
         IN  IF s.serviceType = Absent \/ s.serviceType = NoneText
             THEN [kind |-> "AttributeError", control_url |-> Unbound]
             ELSE IF EndsWith(s.serviceType, WANIPConnection)
                  THEN IF s.controlURL = Absent
                       THEN [kind |-> "AttributeError", control_url |-> Unbound]
                       ELSE [kind |-> "break", control_url |-> s.controlURL]
                  ELSE Walk(Tail(svcs))

\* an unread body taken into account: a SOAP fault is not a success
MappingAcceptedNoFault(st, body) == StatusOk(st) /\ body # "fault"

\* lines 96-98: the response is judged by its status, its body is not read
MappingAccepted(st, body) == StatusOk(st)

\* str(n) of an int, as the f-string formats port_number
Digits == <<"0", "1", "2", "3", "4", "5", "6", "7", "8", "9">>

RECURSIVE ToDecimal(_)
ToDecimal(n) ==
    IF n < 0 THEN <<"-">> \o ToDecimal(-n)
    ELSE IF n < 10 THEN <<Digits[n + 1]>>
    ELSE ToDecimal(n \div 10) \o <<Digits[(n % 10) + 1]>>

\* socket.gethostbyname(socket.gethostname()) when it succeeds
LocalIPs ==
    { <<"1", "0", ".", "0", ".", "0", ".", "2">>,
      <<"1", "2", "7", ".", "0", ".", "1", ".", "1">> }
LocalIP == <<"1", "0", ".", "0", ".", "0", ".", "2">>

\* a body whose internal port is a fixed one
SoapBodyFixedInternal(p, ip) ==
    [NewRemoteHost |-> <<>>,
     NewExternalPort |-> ToDecimal(p),
     NewProtocol |-> <<"T", "C", "P">>,
     NewInternalPort |-> ToDecimal(DefaultPort),
     NewInternalClient |-> ip,
     NewEnabled |-> <<"1">>,
     NewPortMappingDescription |-> <<"UPnP Port Mapping">>,
     NewLeaseDuration |-> <<"0">>]

\* the fields of the AddPortMapping element of soap_body, lines 73-87
SoapBody(p, ip) ==
    [NewRemoteHost |-> <<>>,
     NewExternalPort |-> ToDecimal(p),
     NewProtocol |-> <<"T", "C", "P">>,
     NewInternalPort |-> ToDecimal(p),
     NewInternalClient |-> ip,
     NewEnabled |-> <<"1">>,
     NewPortMappingDescription |-> <<"UPnP Port Mapping">>,
     NewLeaseDuration |-> <<"0">>]

\* soap_body before it is assigned
NoSoap ==
    [NewRemoteHost |-> Unbound,
     NewExternalPort |-> Unbound,
     NewProtocol |-> Unbound,
     NewInternalPort |-> Unbound,
     NewInternalClient |-> Unbound,
     NewEnabled |-> Unbound,
     NewPortMappingDescription |-> Unbound,
     NewLeaseDuration |-> Unbound]

\* bodies of the POST response: a success or a fault envelope with 200, a
\* fault envelope with 500, nothing otherwise
SoapReplies(st) ==
    IF st = HTTP_OK THEN {"success", "fault"}
    ELSE IF st >= 500 THEN {"fault"}
    ELSE {"empty"}

MSearch ==
    [op |-> "M-SEARCH", host |-> <<"239.255.255.250:1900">>, target |-> <<"*">>]

\* open_nat_port: the ports bind() accepts, the exception-free state, the
\* handler inside (line 149) and the handler around the body (line 155)
MaxUdpPort == 65535

NoNatExc == [at |-> "none", kind |-> "none"]

BindOutcomes(p) ==
    IF p \in 0..MaxUdpPort THEN {"ok", "OSError"} ELSE {"OverflowError"}

\* a wait without a handler for the timeout
NatInnerCatchesNothing(e) == FALSE

NatInnerCatches(e) == e = "timeout"

NatOuterCatches(e) == e \in Exceptions

\* ------------------------------------------------------------ state -------
VARIABLES
    pc,          \* position of each invocation
    data,        \* local data: the last datagram, then the description body
    location,    \* local location
    control_url, \* local control_url
    status,      \* response.status of the last HTTP response
    result,      \* "none" while running, then "True", "False" or "raised"
    log,         \* the last message logged
    exc,         \* the exception raised in the invocation, or "none"
    sock,        \* the UDP socket bound to local sock
    conns,       \* the HTTP connections that are open
    cursor,      \* datagrams of the environment the socket has received
    wire,        \* the requests the invocation has put on the network
    net,         \* the environment's answers, as far as they are known
    port_number, \* the argument of each invocation
    soap,        \* local soap_body
    reply,       \* the body of the POST response, which is never read
    nat_pc,      \* position of the open_nat_port call
    nat_port,    \* its argument
    nat_result,  \* "none", then "True" or "False"
    nat_log,     \* the last message it logged
    nat_sock,    \* its UDP socket
    nat_wire,    \* the socket calls that have succeeded
    nat_exc      \* the exception raised in it and the call that raised it

natvars ==
    <<nat_pc, nat_port, nat_result, nat_log, nat_sock, nat_wire, nat_exc>>

vars ==
    <<pc, data, location, control_url, status, result, log, exc, sock, conns,
      cursor, wire, net, port_number, soap, reply, natvars>>

\* one socket kept between the invocations: it goes on where it was
SharedSocketCursor == SetMax({cursor[j] : j \in Procs})

\* socket.socket(...): a new socket has received nothing yet
NewSocketCursor == 0

\* the state before any call, every invocation being asked for port p
InitWith(p) ==
    /\ port_number = [i \in Procs |-> p]
    /\ soap = [i \in Procs |-> NoSoap]
    /\ reply = [i \in Procs |-> "none"]
    /\ nat_pc = "idle"
    /\ nat_port = 0
    /\ nat_result = "none"
    /\ nat_log = "none"
    /\ nat_sock = "none"
    /\ nat_wire = <<>>
    /\ nat_exc = NoNatExc
    /\ pc = [i \in Procs |-> "idle"]
    /\ data = [i \in Procs |-> Unbound]
    /\ location = [i \in Procs |-> Unbound]
    /\ control_url = [i \in Procs |-> Unbound]
    /\ status = [i \in Procs |-> 0]
    /\ result = [i \in Procs |-> "none"]
    /\ log = [i \in Procs |-> "none"]
    /\ exc = [i \in Procs |-> "none"]
    /\ sock = [i \in Procs |-> "none"]
    /\ conns = [i \in Procs |-> {}]
    /\ cursor = [i \in Procs |-> 0]
    /\ wire = [i \in Procs |-> <<>>]
    /\ net = [send |-> "unknown", dgrams |-> <<>>, tail |-> "unknown",
              desc |-> UnknownDesc, resolve |-> "unknown", post |-> UnknownPost]

Init == InitWith(DefaultPort)

\* return: the locals go out of scope and what they held is finalized
Finish(i, res, msg, e) ==
    /\ pc' = [pc EXCEPT ![i] = "done"]
    /\ result' = [result EXCEPT ![i] = res]
    /\ log' = [log EXCEPT ![i] = msg]
    /\ exc' = [exc EXCEPT ![i] = e]
    /\ sock' = [sock EXCEPT ![i] = "closed"]
    /\ conns' = [conns EXCEPT ![i] = {}]

\* an exception raised inside the try block, in the receive loop or after it
Raise(i, e, inLoop) ==
    IF inLoop /\ InnerCatches(e)
    THEN Finish(i, TimeoutReturn, "UPnP discovery timed out", e)
    ELSE IF OuterCatches(e)
         THEN Finish(i, "False", "Error in UPnP port opening", e)
         ELSE Finish(i, "raised", log[i], e)

\* lines 22-40: create the socket and send the M-SEARCH
Begin(i) ==
    /\ pc[i] = "idle"
    /\ \E s \in {"ok", "fail"} :
        /\ net.send \in {"unknown", s}
        /\ net' = [net EXCEPT !.send = s]
        /\ IF s = "fail"
           THEN /\ Raise(i, "OSError", FALSE)
                /\ UNCHANGED <<wire, cursor>>
           ELSE /\ sock' = [sock EXCEPT ![i] = "open"]
                /\ wire' = [wire EXCEPT ![i] = Append(@, MSearch)]
                /\ cursor' = [cursor EXCEPT ![i] = NewSocketCursor]
                /\ pc' = [pc EXCEPT ![i] = "recv"]
                /\ log' = [log EXCEPT ![i] = "Sent UPnP discovery message"]
                /\ UNCHANGED <<result, exc, conns>>
    /\ UNCHANGED <<data, location, control_url, status>>
    /\ UNCHANGED <<port_number, soap, reply, natvars>>

\* a call made when the calls before it have returned
Start(i) ==
    /\ \A j \in 1..(i - 1) : pc[j] = "done"
    /\ Begin(i)

\* lines 44-48 for a received datagram d
Examine(i, d) ==
    /\ data' = [data EXCEPT ![i] = d]
    /\ IF ~Decodable(d)
       THEN /\ Raise(i, "UnicodeDecodeError", TRUE)
            /\ UNCHANGED location
       ELSE IF ~Contains(d, LOCATION)
       THEN UNCHANGED <<pc, result, log, exc, sock, conns, location>>
       ELSE LET m == ReSearch(d)
            IN  IF ~m.matched
                THEN /\ Raise(i, "AttributeError", TRUE)
                     /\ UNCHANGED location
                ELSE /\ location' = [location EXCEPT ![i] = m.group]
                     /\ pc' = [pc EXCEPT ![i] = "fetch"]
                     /\ log' = [log EXCEPT ![i] = "Found UPnP device"]
                     /\ UNCHANGED <<result, exc, sock, conns>>

\* one pass of the receive loop in which recvfrom returns a datagram: the
\* next one the environment is known to send, a new one, or one of an
\* unending stream of datagrams without LOCATION
Recv(i) ==
    /\ pc[i] = "recv"
    /\ \/ /\ cursor[i] < Len(net.dgrams)
          /\ cursor' = [cursor EXCEPT ![i] = @ + 1]
          /\ UNCHANGED net
          /\ Examine(i, net.dgrams[cursor[i] + 1])
       \/ /\ cursor[i] = Len(net.dgrams)
          /\ net.tail = "unknown"
          /\ Len(net.dgrams) < MaxDatagrams
          /\ \E d \in Datagrams :
                /\ net' = [net EXCEPT !.dgrams = Append(@, d)]
                /\ cursor' = [cursor EXCEPT ![i] = @ + 1]
                /\ Examine(i, d)
       \/ /\ cursor[i] = Len(net.dgrams)
          /\ net.tail \in {"unknown", "stream"}
          /\ \E d \in SkippedDatagrams :
                /\ net' = [net EXCEPT !.tail = "stream"]
                /\ UNCHANGED cursor
                /\ Examine(i, d)
    /\ UNCHANGED <<control_url, status, wire>>
    /\ UNCHANGED <<port_number, soap, reply, natvars>>

\* lines 49-51: recvfrom raises socket.timeout, no datagram within 3 seconds
Timeout(i) ==
    /\ pc[i] = "recv"
    /\ cursor[i] = Len(net.dgrams)
    /\ net.tail \in {"unknown", "silence"}
    /\ net' = [net EXCEPT !.tail = "silence"]
    /\ Raise(i, "timeout", TRUE)
    /\ UNCHANGED <<data, location, control_url, status, cursor, wire>>
    /\ UNCHANGED <<port_number, soap, reply, natvars>>

\* lines 54-69: GET the description, parse it, look for the control URL
Fetch(i) ==
    /\ pc[i] = "fetch"
    /\ IF ~HasHost(location[i])
       THEN /\ Raise(i, "IndexError", FALSE)
            /\ UNCHANGED <<net, wire, data, status, control_url>>
       ELSE \E r \in DescResponses :
            /\ net.desc \in {UnknownDesc, r}
            /\ net' = [net EXCEPT !.desc = r]
            /\ IF r.kind = "refused"
               THEN /\ Raise(i, "OSError", FALSE)
                    /\ UNCHANGED <<wire, data, status, control_url>>
               ELSE /\ wire' = [wire EXCEPT ![i] = Append(@,
                                 [op |-> "GET", host |-> HostOf(location[i]),
                                  target |-> PathOf(location[i])])]
                    /\ status' = [status EXCEPT ![i] = r.status]
                    /\ data' = [data EXCEPT ![i] = r.body]
                    /\ IF ~r.xml
                       THEN /\ Raise(i, "ParseError", FALSE)
                            /\ UNCHANGED control_url
                       ELSE LET w == Walk(FindAll(r.body))
                            IN  CASE w.kind = "break" ->
                                     /\ control_url' =
                                          [control_url EXCEPT ![i] = w.control_url]
                                     /\ pc' = [pc EXCEPT ![i] = "map"]
                                     /\ conns' = [conns EXCEPT ![i] = {"get"}]
                                     /\ log' = [log EXCEPT ![i] = "Found control URL"]
                                     /\ UNCHANGED <<result, exc, sock>>
                                  [] w.kind = "else" ->
                                     /\ Finish(i, "False",
                                          "Could not find WANIPConnection service",
                                          "none")
                                     /\ UNCHANGED control_url
                                  [] OTHER ->
                                     /\ Raise(i, "AttributeError", FALSE)
                                     /\ UNCHANGED control_url
    /\ UNCHANGED <<location, cursor>>
    /\ UNCHANGED <<port_number, soap, reply, natvars>>

\* lines 72-105: build the SOAP request, POST it, judge the status
Map(i) ==
    /\ pc[i] = "map"
    /\ \E h \in {"ok", "fail"} :
        /\ net.resolve \in {"unknown", h}
        /\ IF h = "fail"
           THEN /\ net' = [net EXCEPT !.resolve = h]
                /\ Raise(i, "gaierror", FALSE)
                /\ UNCHANGED <<wire, status, soap, reply>>
           ELSE \E r \in PostResponses :
                /\ net.post \in {UnknownPost, r}
                /\ net' = [net EXCEPT !.resolve = h, !.post = r]
                /\ soap' = [soap EXCEPT ![i] = SoapBody(port_number[i], LocalIP)]
                /\ IF r.kind = "refused"
                   THEN /\ Raise(i, "OSError", FALSE)
                        /\ UNCHANGED <<wire, status, reply>>
                   ELSE \E b \in SoapReplies(r.status) :
                        /\ wire' = [wire EXCEPT ![i] = Append(@,
                                     [op |-> "POST", host |-> HostOf(location[i]),
                                      target |-> RequestTarget(control_url[i])])]
                        /\ status' = [status EXCEPT ![i] = r.status]
                        /\ reply' = [reply EXCEPT ![i] = b]
                        /\ IF MappingAccepted(r.status, b)
                           THEN Finish(i, "True", "Successfully opened UPnP port",
                                       "none")
                           ELSE Finish(i, "False", "Failed to open UPnP port",
                                       "none")
    /\ UNCHANGED <<data, location, control_url, cursor>>
    /\ UNCHANGED <<port_number, natvars>>

Next ==
    \E i \in Procs :
        \/ Start(i)
        \/ Recv(i)
        \/ Timeout(i)
        \/ Fetch(i)
        \/ Map(i)

Spec == Init /\ [][Next]_vars

\* the interpreter keeps running the invocation that is in progress
LiveSpec == Spec /\ WF_vars(Next)

\* ------------------------------------------------------ open_nat_port -----
upnpvars ==
    <<pc, data, location, control_url, status, result, log, exc, sock, conns,
      cursor, wire, net, port_number, soap, reply>>

\* return from open_nat_port: local sock goes out of scope
NatFinish(res, msg, e) ==
    /\ nat_pc' = "done"
    /\ nat_result' = res
    /\ nat_log' = msg
    /\ nat_exc' = e
    /\ nat_sock' = IF nat_sock = "none" THEN "none" ELSE "closed"

\* an exception raised by the call named at, outside the inner try
NatRaise(at, e) ==
    IF NatOuterCatches(e)
    THEN NatFinish("False", "Error in local port opening", [at |-> at, kind |-> e])
    ELSE NatFinish("raised", nat_log, [at |-> at, kind |-> e])

\* lines 122-127: create the socket and bind it to the port
NatCall ==
    /\ nat_pc = "idle"
    /\ \E p \in Ports :
        /\ nat_port' = p
        /\ \E b \in BindOutcomes(p) :
            IF b = "ok"
            THEN /\ nat_pc' = "bound"
                 /\ nat_sock' = "open"
                 /\ nat_wire' = Append(nat_wire, "bind")
                 /\ nat_log' = "Attempting to open local port"
                 /\ UNCHANGED <<nat_result, nat_exc>>
            ELSE /\ nat_pc' = "done"
                 /\ nat_sock' = "closed"
                 /\ nat_result' = IF NatOuterCatches(b) THEN "False" ELSE "raised"
                 /\ nat_log' = "Error in local port opening"
                 /\ nat_exc' = [at |-> "bind", kind |-> b]
                 /\ UNCHANGED nat_wire
    /\ UNCHANGED upnpvars

\* lines 130-135: look up the local address, allow broadcasts
NatResolve ==
    /\ nat_pc = "bound"
    /\ \E h \in {"ok", "gaierror"} :
        IF h = "ok"
        THEN /\ nat_pc' = "send"
             /\ nat_log' = "Bound to local address"
             /\ nat_wire' = Append(nat_wire, "setsockopt")
             /\ UNCHANGED <<nat_result, nat_exc, nat_sock>>
        ELSE /\ NatRaise("gethostbyname", h)
             /\ UNCHANGED nat_wire
    /\ UNCHANGED <<nat_port, upnpvars>>

\* lines 138-145: send the broadcast packet, set the 5 second timeout
NatSend ==
    /\ nat_pc = "send"
    /\ \E s \in {"ok", "OSError"} :
        IF s = "ok"
        THEN /\ nat_pc' = "wait"
             /\ nat_log' = "Sent broadcast packet"
             /\ nat_wire' = Append(nat_wire, "sendto")
             /\ UNCHANGED <<nat_result, nat_exc, nat_sock>>
        ELSE /\ NatRaise("sendto", s)
             /\ UNCHANGED nat_wire
    /\ UNCHANGED <<nat_port, upnpvars>>

\* lines 147-153: a datagram arrives within the 5 seconds
NatRecv ==
    /\ nat_pc = "wait"
    /\ nat_wire' = Append(nat_wire, "recvfrom")
    /\ NatFinish("True", "Successfully opened local port", NoNatExc)
    /\ UNCHANGED <<nat_port, upnpvars>>

\* lines 149-153: recvfrom raises socket.timeout
NatTimeout ==
    /\ nat_pc = "wait"
    /\ IF NatInnerCatches("timeout")
       THEN NatFinish("True", "Successfully opened local port",
                      [at |-> "recvfrom", kind |-> "timeout"])
       ELSE NatRaise("recvfrom", "timeout")
    /\ UNCHANGED <<nat_wire, nat_port, upnpvars>>

NatNext ==
    \/ NatCall
    \/ NatResolve
    \/ NatSend
    \/ NatRecv
    \/ NatTimeout

NatSpec == Init /\ [][NatNext]_vars

\* The request body as a function of the requested port: any port, any
\* local address, the body built as lines 73-87 build it.
SoapInit == \E p \in Ports : InitWith(p)

BuildRequest(i) ==
    /\ soap[i] = NoSoap
    /\ \E ip \in LocalIPs :
        soap' = [soap EXCEPT ![i] = SoapBody(port_number[i], ip)]
    /\ UNCHANGED <<pc, data, location, control_url, status, result, log, exc,
                   sock, conns, cursor, wire, net, port_number, reply, natvars>>

SoapNext == \E i \in Procs : BuildRequest(i)

SoapSpec == SoapInit /\ [][SoapNext]_vars

\* Two invocations running at the same time, as two threads of one process:
\* either may be called at any moment, and the interpreter may switch between
\* them at every step.
ConcProcs == {1, 2}

StartAny(i) == Begin(i)

ConcNext ==
    \E i \in ConcProcs :
        \/ StartAny(i)
        \/ Recv(i)
        \/ Timeout(i)
        \/ Fetch(i)
        \/ Map(i)

ConcSpec == Init /\ [][ConcNext]_vars

\* ============================================================ claims ======

Ops(i) == [k \in 1..Len(wire[i]) |-> wire[i][k].op]
Issued(i, op) == \E k \in 1..Len(wire[i]) : wire[i][k].op = op
Returned(i) == pc[i] = "done"

\* s ends with suf, by comparing the last Len(suf) characters
HasSuffix(s, suf) ==
    /\ Len(s) >= Len(suf)
    /\ SubSeq(s, Len(s) - Len(suf) + 1, Len(s)) = suf

IsText(t) == t # Absent /\ t # NoneText

\* the service elements of the device namespace whose serviceType text ends
\* with WANIPConnection, as indexes into the document
Matching(doc) ==
    {k \in 1..Len(doc) :
        /\ doc[k].ns
        /\ IsText(doc[k].serviceType)
        /\ HasSuffix(doc[k].serviceType, WANIPConnection)}

\* the description that invocation i fetched and could parse
Fetched(i) == Issued(i, "GET") /\ net.desc.kind = "response" /\ net.desc.xml

\* C1: an invocation whose receive timed out has returned False and has
\* issued neither the description GET nor the mapping POST.
C1_TimeoutShortCircuits ==
    \A i \in Procs :
        (Returned(i) /\ exc[i] = "timeout") =>
            /\ result[i] = "False"
            /\ ~Issued(i, "GET")
            /\ ~Issued(i, "POST")

\* a timeout after a datagram without LOCATION was received and skipped
C1_Witness ==
    \E i \in Procs :
        /\ Returned(i)
        /\ exc[i] = "timeout"
        /\ cursor[i] >= 1
        /\ result[i] = "False"

\* C2: once the mapping POST is answered the invocation returns True when
\* the status is 200 and False for every other status.
C2_StatusDecides ==
    \A i \in Procs :
        (Returned(i) /\ Issued(i, "POST")) =>
            /\ status[i] = 200 => result[i] = "True"
            /\ status[i] # 200 => result[i] = "False"

\* a POST answered with another 2xx status, and False returned
C2_Witness ==
    \E i \in Procs :
        /\ Returned(i)
        /\ Issued(i, "POST")
        /\ status[i] = 204
        /\ result[i] = "False"

\* a failure of some stage of invocation i
Failed(i) ==
    \/ exc[i] # "none"
    \/ log[i] = "Could not find WANIPConnection service"
    \/ Issued(i, "POST") /\ status[i] # 200

\* C3: an invocation has no result while it runs, ends with exactly one
\* boolean, never with a propagated error, and the boolean is False whenever
\* a stage failed.
C3_FailuresBecomeFalse ==
    \A i \in Procs :
        /\ ~Returned(i) => result[i] = "none"
        /\ Returned(i) => result[i] \in {"True", "False"}
        /\ (Returned(i) /\ Failed(i)) => result[i] = "False"

\* a LOCATION mention that the pattern does not match, caught as False
C3_Witness ==
    \E i \in Procs :
        /\ Returned(i)
        /\ exc[i] = "AttributeError"
        /\ ~Issued(i, "GET")
        /\ result[i] = "False"

\* C4: when the fetched description has no service whose serviceType text
\* ends with WANIPConnection, no POST is issued and the invocation returns
\* False.
C4_NoServiceNoPost ==
    \A i \in Procs :
        (Fetched(i) /\ Matching(net.desc.body) = {}) =>
            /\ ~Issued(i, "POST")
            /\ Returned(i)
            /\ result[i] = "False"

\* a description whose only service is WANIPConnection:1, which the suffix
\* test does not match
C4_Witness ==
    \E i \in Procs :
        /\ Fetched(i)
        /\ Len(net.desc.body) = 1
        /\ net.desc.body[1].ns
        /\ net.desc.body[1].serviceType = TypeVersioned
        /\ log[i] = "Could not find WANIPConnection service"
        /\ result[i] = "False"

IsPrefixOf(s, t) == Len(s) <= Len(t) /\ s = SubSeq(t, 1, Len(s))

\* C5: the requests of one invocation are a prefix of M-SEARCH, GET, POST;
\* a GET is on the wire only with a location, a POST only with a control URL.
C5_StrictOrder ==
    \A i \in Procs :
        /\ IsPrefixOf(Ops(i), <<"M-SEARCH", "GET", "POST">>)
        /\ Issued(i, "GET") => location[i] # Unbound
        /\ Issued(i, "POST") => control_url[i] # Unbound

\* all three requests issued, after a skipped datagram
C5_Witness ==
    \E i \in Procs :
        /\ Ops(i) = <<"M-SEARCH", "GET", "POST">>
        /\ cursor[i] >= 2
        /\ Returned(i)

\* the header lines of a reply start after the status line and after each
\* CRLF; a LOCATION header is a line that starts with "LOCATION:", and its
\* value is what follows the colon and the spaces after it, up to the CRLF
LineStarts(s) ==
    {1} \cup {k + 2 : k \in {j \in 1..(Len(s) - 1) : s[j] = "\r" /\ s[j + 1] = "\n"}}

LocationHeaders(s) ==
    {p \in LineStarts(s) :
        /\ p + Len(LOCATION) <= Len(s)
        /\ SubSeq(s, p, p + Len(LOCATION)) = LOCATION \o <<":">>}

LocationHeaderValue(s) ==
    LET p == SetMin(LocationHeaders(s))
        v == SetMin({k \in (p + Len(LOCATION) + 1)..Len(s) : s[k] # " "})
        e == SetMin({k \in v..(Len(s) - 1) : s[k] = "\r" /\ s[k + 1] = "\n"})
    IN  SubSeq(s, v, e - 1)

\* a reply whose lines all end with CRLF and that has a LOCATION header
ValidReply(s) ==
    /\ Decodable(s)
    /\ \A k \in 1..Len(s) : s[k] = "\n" => (k > 1 /\ s[k - 1] = "\r")
    /\ LocationHeaders(s) # {}

\* C6: the location taken from an accepted valid reply is the value of the
\* reply's LOCATION header, whatever headers precede or follow it.
C6_LocationIsHeaderValue ==
    \A i \in Procs :
        (pc[i] = "fetch" /\ ValidReply(data[i])) =>
            location[i] = LocationHeaderValue(data[i])

FirstMatch(doc) == SetMin(Matching(doc))

\* every service element of the namespace ahead of index k has serviceType text
TextTypesBefore(doc, k) ==
    \A j \in 1..(k - 1) : doc[j].ns => IsText(doc[j].serviceType)

\* C7 as stated: whenever the fetched description has a matching service
\* with a controlURL element, the control URL is that of the first match,
\* whatever the other service elements look like.
C7_FirstMatchRegardless ==
    \A i \in Procs :
        ( /\ Fetched(i)
          /\ Matching(net.desc.body) # {}
          /\ net.desc.body[FirstMatch(net.desc.body)].controlURL # Absent ) =>
            control_url[i] = net.desc.body[FirstMatch(net.desc.body)].controlURL

\* C7 (amended): when every service element ahead of the first match has
\* serviceType text and the first match has a controlURL element, the
\* control URL is the controlURL text of the first match, unmodified; and a
\* control URL is never anything else than that of the first match.
C7_FirstMatchWhenTyped ==
    \A i \in Procs :
        /\ ( /\ Fetched(i)
             /\ Matching(net.desc.body) # {}
             /\ net.desc.body[FirstMatch(net.desc.body)].controlURL # Absent
             /\ TextTypesBefore(net.desc.body, FirstMatch(net.desc.body)) ) =>
                control_url[i] = net.desc.body[FirstMatch(net.desc.body)].controlURL
        /\ control_url[i] # Unbound =>
                /\ Fetched(i)
                /\ Matching(net.desc.body) # {}
                /\ control_url[i] =
                       net.desc.body[FirstMatch(net.desc.body)].controlURL

\* a non-matching service skipped and the second service selected
C7_Witness ==
    \E i \in Procs :
        /\ Fetched(i)
        /\ Len(net.desc.body) = 2
        /\ net.desc.body[1].ns
        /\ net.desc.body[1].serviceType = TypeVersioned
        /\ Matching(net.desc.body) = {2}
        /\ control_url[i] = Ctl2

\* C8: invocations that have returned, against the same environment,
\* have returned the same boolean.
C8_SameResultTwice ==
    \A i \in Procs : \A j \in Procs :
        (Returned(i) /\ Returned(j)) => result[i] = result[j]

\* two invocations returned True, the accepted reply being the second datagram
C8_Witness ==
    \E i \in Procs : \E j \in Procs :
        /\ i # j
        /\ Returned(i)
        /\ Returned(j)
        /\ result[i] = "True"
        /\ result[j] = "True"
        /\ cursor[j] = 2

\* C9: the UDP socket is not open while the description GET or the mapping
\* POST runs, the GET's connection is not open while the POST stage runs,
\* and nothing is open once the invocation has returned.
C9_StageScopedResources ==
    \A i \in Procs :
        /\ pc[i] \in {"fetch", "map"} => sock[i] # "open"
        /\ pc[i] = "map" => "get" \notin conns[i]
        /\ Returned(i) => (sock[i] # "open" /\ conns[i] = {})

\* C10: an invocation that is in the receive loop eventually leaves it.
C10_DiscoveryTerminates ==
    \A i \in Procs : (pc[i] = "recv") ~> (pc[i] # "recv")

\* C11: when the description GET is answered with an error status, no POST
\* is issued and the invocation returns False, whatever the body is.
C11_ErrorStatusFailsFetch ==
    \A i \in Procs :
        ( /\ Issued(i, "GET")
          /\ net.desc.kind = "response"
          /\ net.desc.status # 200 ) =>
            /\ ~Issued(i, "POST")
            /\ Returned(i) => result[i] = "False"

\* the host:port of a URL: what stands between "//" and the next "/"
AuthorityOf(url) ==
    LET a == SetMin({k \in 1..(Len(url) - 1) : url[k] = "/" /\ url[k + 1] = "/"}) + 2
        ends == {k \in a..Len(url) : url[k] = "/"}
        e == IF ends = {} THEN Len(url) + 1 ELSE SetMin(ends)
    IN  SubSeq(url, a, e - 1)

\* the mapping POST of invocation i, the last request it issued
PostOf(i) == wire[i][Len(wire[i])]

\* discovery gave a location, the description a control URL, the POST 200
MappedWith200(i) ==
    /\ Returned(i)
    /\ Ops(i) = <<"M-SEARCH", "GET", "POST">>
    /\ status[i] = 200

\* C12 as stated: then the invocation returns True, the POST went to the
\* host:port of the location URL and its request target is the control URL.
C12_PostToLocationHost ==
    \A i \in Procs :
        MappedWith200(i) =>
            /\ result[i] = "True"
            /\ PostOf(i).host = AuthorityOf(location[i])
            /\ PostOf(i).target = control_url[i]

\* C12 (amended): then the invocation returns True, the POST went to the
\* host:port of the location URL, and its request target is the controlURL
\* text, absolute or path, or "/" when the controlURL element has no text.
C12_PostToLocationHostTarget ==
    \A i \in Procs :
        MappedWith200(i) =>
            /\ result[i] = "True"
            /\ PostOf(i).host = AuthorityOf(location[i])
            /\ IsText(control_url[i]) => PostOf(i).target = control_url[i]
            /\ ~IsText(control_url[i]) => PostOf(i).target = <<"/">>

\* an absolute control URL on another host, posted to the location's host
C12_Witness ==
    \E i \in Procs :
        /\ MappedWith200(i)
        /\ location[i] = Url1
        /\ control_url[i] = Ctl2
        /\ PostOf(i).host = <<"r", ":", "1">>
        /\ PostOf(i).target = Ctl2
        /\ result[i] = "True"

\* a datagram that decodes and has a header line starting with "LOCATION:"
CarriesLocationHeader(d) == Decodable(d) /\ LocationHeaders(d) # {}

\* C13: a step that takes an invocation out of the receive loop is a timeout
\* or the receipt of a datagram that carries a LOCATION header; any other
\* datagram leaves the invocation in the loop.
C13_OnlyLocationOrTimeoutEnds ==
    [][\A i \in Procs :
          (pc[i] = "recv" /\ pc'[i] # "recv" /\ exc'[i] # "timeout") =>
              CarriesLocationHeader(data'[i])]_vars

\* the text "LOCATION: " occurs somewhere in d
HasLocationColonSpace(d) ==
    \E k \in 1..Len(d) :
        /\ k + Len(LOCATION) + 1 <= Len(d)
        /\ SubSeq(d, k, k + Len(LOCATION) + 1) = LOCATION \o <<":", " ">>

\* a LOCATION header is present but not in the form the code can parse
MalformedLocation(d) == CarriesLocationHeader(d) /\ ~HasLocationColonSpace(d)

\* C14: a datagram with a present but unparsable LOCATION header is the last
\* one its invocation receives: the invocation has returned False with an
\* error, and has issued neither GET nor POST.
C14_MalformedReplyFails ==
    \A i \in Procs :
        \A k \in 1..cursor[i] :
            (k <= Len(net.dgrams) /\ MalformedLocation(net.dgrams[k])) =>
                /\ k = cursor[i]
                /\ Returned(i)
                /\ result[i] = "False"
                /\ exc[i] = "AttributeError"
                /\ ~Issued(i, "GET")
                /\ ~Issued(i, "POST")

\* "LOCATION:http://r:1/d" received after a skipped datagram
C14_Witness ==
    \E i \in Procs :
        /\ cursor[i] = 2
        /\ Len(net.dgrams) = 2
        /\ net.dgrams[2] = Reply(<<HdrLocNoSpace(Url1)>>, CRLF)
        /\ Returned(i)
        /\ result[i] = "False"

\* C15: the result depends on the POST response through its status only: two
\* invocations whose POST was answered with the same status return the same
\* boolean, whatever SOAP body came with each answer.
C15_BodyIsIgnored ==
    \A i, j \in Procs :
        (/\ Returned(i) /\ Returned(j)
         /\ reply[i] # "none" /\ reply[j] # "none"
         /\ status[i] = status[j]) =>
            result[i] = result[j]

\* two invocations answered 200, one with a success body and one with a fault
C15_Witness ==
    \E i, j \in Procs :
        /\ Returned(i) /\ Returned(j)
        /\ status[i] = HTTP_OK /\ status[j] = HTTP_OK
        /\ reply[i] = "success" /\ reply[j] = "fault"
        /\ result[i] = "True" /\ result[j] = "True"

\* the integer a decimal numeral denotes
DigitValue(c) == CHOOSE d \in 0..9 : Digits[d + 1] = c

RECURSIVE DecimalValue(_)
DecimalValue(s) ==
    IF s = <<>> THEN 0
    ELSE IF Head(s) = "-" THEN 0 - DecimalValue(Tail(s))
    ELSE 10 * DecimalValue(SubSeq(s, 1, Len(s) - 1)) + DigitValue(s[Len(s)])

\* C16: every AddPortMapping body built for port p names p as external and
\* as internal port, protocol TCP, an empty remote host, enabled 1 and lease
\* duration 0, for every requested port p.
C16_RequestFields ==
    \A i \in Procs :
        soap[i] # NoSoap =>
            /\ DecimalValue(soap[i].NewExternalPort) = port_number[i]
            /\ DecimalValue(soap[i].NewInternalPort) = port_number[i]
            /\ soap[i].NewExternalPort = soap[i].NewInternalPort
            /\ soap[i].NewProtocol = <<"T", "C", "P">>
            /\ soap[i].NewRemoteHost = <<>>
            /\ soap[i].NewEnabled = <<"1">>
            /\ soap[i].NewLeaseDuration = <<"0">>

\* a body built for the largest port considered
C16_Witness ==
    \E i \in Procs : soap[i] # NoSoap /\ port_number[i] = MaxPort

\* what an invocation holds: its locals, its socket and its connections
Locals(i) ==
    <<pc[i], data[i], location[i], control_url[i], status[i], result[i],
      exc[i], sock[i], conns[i], cursor[i], wire[i], soap[i], reply[i]>>

\* C17: two invocations running concurrently do not interfere: a step of one
\* changes nothing the other holds, and, the environment answering the
\* sockets of either in the same way, both return the same boolean after the
\* same requests, under every interleaving of their steps.
C17_NoInterference ==
    /\ [](\A i, j \in ConcProcs :
            (Returned(i) /\ Returned(j)) =>
                (result[i] = result[j] /\ wire[i] = wire[j]))
    /\ [][\A i, j \in ConcProcs :
            (i # j /\ Locals(i)' # Locals(i)) => Locals(j)' = Locals(j)]_vars

\* both invocations under way, one already past the description, the other
\* still receiving
C17_Witness ==
    /\ pc[1] = "recv" /\ cursor[1] = 0
    /\ pc[2] = "map"

\* the datagram that ended the receive loop of invocation i
AcceptedDatagram(i) == net.dgrams[cursor[i]]

\* C18: True is returned only if, in the same invocation, a datagram with a
\* LOCATION header was accepted, a description GET completed and yielded the
\* control URL of a WANIPConnection service, and the mapping POST was sent
\* and answered with status 200.
C18_TrueNeedsEveryStep ==
    \A i \in Procs :
        result[i] = "True" =>
            /\ cursor[i] >= 1
            /\ CarriesLocationHeader(AcceptedDatagram(i))
            /\ Ops(i) = <<"M-SEARCH", "GET", "POST">>
            /\ net.desc.kind = "response"
            /\ \E k \in Matching(net.desc.body) :
                    net.desc.body[k].controlURL = control_url[i]
            /\ status[i] = HTTP_OK

\* the invocation was aborted by an AttributeError: False, and no POST
Aborted(i) ==
    /\ Returned(i)
    /\ result[i] = "False"
    /\ exc[i] = "AttributeError"
    /\ ~Issued(i, "POST")

\* C19: when the fetched description has, ahead of its first matching
\* service, a service element without serviceType element or with empty
\* serviceType text, the invocation is aborted with False and no POST; so it
\* is when the first matching service has no controlURL element.
C19_UntypedServiceAborts ==
    \A i \in Procs :
        (Fetched(i) /\ Matching(net.desc.body) # {}) =>
            LET doc == net.desc.body
                m == FirstMatch(doc)
            IN  /\ (\E k \in 1..(m - 1) :
                        doc[k].ns /\ doc[k].serviceType \in {Absent, NoneText})
                        => Aborted(i)
                /\ doc[m].controlURL = Absent => Aborted(i)

\* a description whose first service has no serviceType element and whose
\* second service is the matching one, complete with its control URL
C19_Witness ==
    \E i \in Procs :
        /\ Fetched(i)
        /\ Len(net.desc.body) = 2
        /\ net.desc.body[1].ns
        /\ net.desc.body[1].serviceType = Absent
        /\ Matching(net.desc.body) = {2}
        /\ net.desc.body[2].controlURL = Ctl1
        /\ Aborted(i)

NatDid(call) == \E k \in 1..Len(nat_wire) : nat_wire[k] = call

====
